---- MODULE Spec2Model ----
(***************************************************************************)
(* A model of the bidirectional type checker of siml (src/src/bi_types.rs):*)
(* the ordered context, subtyping, instantiation and the mutually          *)
(* recursive check / infer / infer_application, driven by a TypeChecker    *)
(* that synthesises the type of one expression after the other.            *)
(*                                                                         *)
(* Names are sequences of strings: the identifier alpha is <<"alpha">> and *)
(* the generated name format!("{}v", 12) is <<"1", "2", "v">>.             *)
(* Types, expressions and context elements are records tagged by k.        *)
(* A Rust panic (expect, unwrap, unreachable!, assert!, index out of       *)
(* bounds) is the result tag "Panic".  Every result carries log, the       *)
(* sequence of the calls that returned so far (ghost state for the claims  *)
(* about intermediate contexts).                                           *)
(***************************************************************************)
EXTENDS Integers, Sequences, FiniteSets, TLC

VARIABLES pc, name_gen, expr, result, args

vars == <<pc, name_gen, expr, result, args>>

(***************************************************************************)
(* Bounds of the model.                                                    *)
(***************************************************************************)
\* generated expressions have at most MaxSize nodes
MaxSize == 3
\* integer literals are 0..MaxLit
MaxLit == 1
\* a TypeChecker is reused for another synth while ty_gen <= MaxGenStart
MaxGenStart == 1
\* contexts of the unit-level specifications have at most MaxCtxLen elements
MaxCtxLen == 3
\* the types given to subst nest Fun and Poly at most MaxTypeDepth deep
MaxTypeDepth == 2
\* a counter value of a long-used TypeChecker, whose next names gain a digit
FarGenStart == 8
\* expressions given to the evaluator's substitute have at most MaxEvalSize nodes
MaxEvalSize == 4
\* the evaluator's supply starts at most at MaxSupply
MaxSupply == 1
\* the types compared with themselves nest Fun and Poly at most MaxReflDepth deep
MaxReflDepth == 2

(***************************************************************************)
(* Type (bi_types.rs 6-13) and its smart constructors.                     *)
(***************************************************************************)
Type_Int == [k |-> "Int"]
Type_Bool == [k |-> "Bool"]
Type_Var(s) == [k |-> "Var", n |-> s]
Type_Existential(e) == [k |-> "Existential", n |-> e]
Type_Poly(vs, ty) == [k |-> "Poly", vars |-> vs, ty |-> ty]
Type_Fun(arg, res) == [k |-> "Fun", arg |-> arg, result |-> res]

\* the set of elements of a sequence
Range(s) == {s[i] : i \in 1..Len(s)}

RECURSIVE is_mono(_)
is_mono(ty) ==
    CASE ty.k \in {"Var", "Existential", "Int", "Bool"} -> TRUE
      [] ty.k = "Poly" -> FALSE
      [] ty.k = "Fun" -> is_mono(ty.arg) /\ is_mono(ty.result)

RECURSIVE free_vars(_)
\* mutant: the Existential arm of free_vars is missing
free_vars_no_existential(ty) ==
    CASE ty.k = "Var" -> {ty.n}
      [] ty.k = "Fun" -> free_vars(ty.arg) \cup free_vars(ty.result)
      [] ty.k = "Poly" -> free_vars(ty.ty) \ Range(ty.vars)
      [] ty.k \in {"Int", "Bool", "Existential"} -> {}

free_vars(ty) ==
    CASE ty.k = "Var" -> {ty.n}
      [] ty.k = "Fun" -> free_vars(ty.arg) \cup free_vars(ty.result)
      [] ty.k = "Existential" -> {ty.n}
      [] ty.k = "Poly" -> free_vars(ty.ty) \ Range(ty.vars)
      [] ty.k \in {"Int", "Bool"} -> {}

RECURSIVE subst(_, _, _)
\* mutant: the Fun arm substitutes in arg only
subst_arg_only(ty, var, replacement) ==
    CASE ty.k \in {"Bool", "Int"} -> ty
      [] ty.k \in {"Var", "Existential"} ->
            IF ty.n = var THEN replacement ELSE ty
      [] ty.k = "Poly" ->
            IF var \in Range(ty.vars) THEN ty
            ELSE Type_Poly(ty.vars, subst(ty.ty, var, replacement))
      [] ty.k = "Fun" -> Type_Fun(subst(ty.arg, var, replacement), ty.result)

subst(ty, var, replacement) ==
    CASE ty.k \in {"Bool", "Int"} -> ty
      [] ty.k \in {"Var", "Existential"} ->
            IF ty.n = var THEN replacement ELSE ty
      [] ty.k = "Poly" ->
            IF var \in Range(ty.vars) THEN ty
            ELSE Type_Poly(ty.vars, subst(ty.ty, var, replacement))
      [] ty.k = "Fun" ->
            Type_Fun(subst(ty.arg, var, replacement),
                     subst(ty.result, var, replacement))

RECURSIVE subst_mut(_, _, _)
\* mutant: the Fun arm substitutes in arg only
subst_mut_arg_only(ty, var, replacement) ==
    CASE ty.k \in {"Bool", "Int"} -> ty
      [] ty.k \in {"Var", "Existential"} ->
            IF ty.n = var THEN replacement ELSE ty
      [] ty.k = "Poly" ->
            IF ~(var \in Range(ty.vars))
            THEN [ty EXCEPT !.ty = subst_mut(ty.ty, var, replacement)]
            ELSE ty
      [] ty.k = "Fun" ->
            [ty EXCEPT !.arg = subst_mut(ty.arg, var, replacement)]

subst_mut(ty, var, replacement) ==
    CASE ty.k \in {"Bool", "Int"} -> ty
      [] ty.k \in {"Var", "Existential"} ->
            IF ty.n = var THEN replacement ELSE ty
      [] ty.k = "Poly" ->
            IF ~(var \in Range(ty.vars))
            THEN [ty EXCEPT !.ty = subst_mut(ty.ty, var, replacement)]
            ELSE ty
      [] ty.k = "Fun" ->
            [ty EXCEPT !.arg = subst_mut(ty.arg, var, replacement),
                       !.result = subst_mut(ty.result, var, replacement)]

(***************************************************************************)
(* ContextElem (bi_types.rs 396-402) and Context (150-152): a context is   *)
(* the sequence elems.                                                     *)
(***************************************************************************)
Universal(v) == [k |-> "Universal", n |-> v]
ExVar(v) == [k |-> "ExVar", n |-> v]
ExVarSolved(v, ty) == [k |-> "ExVarSolved", n |-> v, ty |-> ty]
Marker(v) == [k |-> "Marker", n |-> v]
Anno(v, ty) == [k |-> "Anno", n |-> v, ty |-> ty]

\* Option / panic results of the context primitives
None == [tag |-> "None"]
Some(c) == [tag |-> "Some", ctx |-> c]
CtxOk(c) == [tag |-> "Ok", ctx |-> c]
CtxPanic(m) == [tag |-> "Panic", msg |-> m]

\* Iterator::position: the first index whose element equals elem, 0 for None
split_at(ctx, elem) ==
    IF \E i \in 1..Len(ctx) : ctx[i] = elem
    THEN CHOOSE i \in 1..Len(ctx) :
            ctx[i] = elem /\ \A j \in 1..(i - 1) : ctx[j] # elem
    ELSE 0

split_at_ex(ctx, ex) == split_at(ctx, ExVar(ex))

elem(ctx, e) == split_at(ctx, e) # 0

push(ctx, e) == Append(ctx, e)

push_elems(ctx, es) == ctx \o es

insert_at_ex(ctx, ex, es) ==
    LET pos == split_at_ex(ctx, ex) IN
    IF pos = 0 THEN CtxPanic("unreachable")
    ELSE CtxOk(SubSeq(ctx, 1, pos - 1) \o es \o SubSeq(ctx, pos + 1, Len(ctx)))

\* mutant: the marker itself is kept
drop_marker_keeps_marker(ctx, marker) ==
    LET pos == split_at(ctx, marker) IN
    IF pos = 0 THEN CtxPanic("dropping non-existent marker")
    ELSE CtxOk(SubSeq(ctx, 1, pos))

drop_marker(ctx, marker) ==
    LET pos == split_at(ctx, marker) IN
    IF pos = 0 THEN CtxPanic("dropping non-existent marker")
    ELSE CtxOk(SubSeq(ctx, 1, pos - 1))

\* (before, after) of break_marker, or the panic of its expect
break_marker(ctx, marker) ==
    LET pos == split_at(ctx, marker) IN
    IF pos = 0 THEN CtxPanic("breaking non-existent marker")
    ELSE [tag |-> "Ok", before |-> SubSeq(ctx, 1, pos - 1),
          after |-> SubSeq(ctx, pos + 1, Len(ctx))]

markers(ctx) == {ctx[i].n : i \in {j \in 1..Len(ctx) : ctx[j].k = "Marker"}}

ctx_vars(ctx) == {ctx[i].n : i \in {j \in 1..Len(ctx) : ctx[j].k = "Anno"}}

foralls(ctx) == {ctx[i].n : i \in {j \in 1..Len(ctx) : ctx[j].k = "Universal"}}

existentials(ctx) ==
    {ctx[i].n : i \in {j \in 1..Len(ctx) : ctx[j].k \in {"ExVar", "ExVarSolved"}}}

\* index of the first ExVarSolved(ex, _), 0 for None
find_solved_pos(ctx, ex) ==
    LET hits == {i \in 1..Len(ctx) : ctx[i].k = "ExVarSolved" /\ ctx[i].n = ex} IN
    IF hits = {} THEN 0 ELSE CHOOSE i \in hits : \A j \in hits : i <= j

find_solved(ctx, ex) ==
    LET pos == find_solved_pos(ctx, ex) IN
    IF pos = 0 THEN None ELSE [tag |-> "Some", ty |-> ctx[pos].ty]

find_var(ctx, var) ==
    LET hits == {i \in 1..Len(ctx) : ctx[i].k = "Anno" /\ ctx[i].n = var} IN
    IF hits = {} THEN None
    ELSE [tag |-> "Some", ty |-> ctx[CHOOSE i \in hits : \A j \in hits : i <= j].ty]

u_var_wf(ctx, var) == elem(ctx, Universal(var))

evar_wf(ctx, evar) == elem(ctx, ExVar(evar))

solved_evar_wf(ctx, evar) ==
    \E i \in 1..Len(ctx) : ctx[i].k = "ExVarSolved" /\ ctx[i].n = evar

RECURSIVE wf_type(_, _)
arrow_wf(ctx, a, b) == wf_type(ctx, a) /\ wf_type(ctx, b)

forall_wf(ctx, vs, ty) ==
    wf_type(ctx \o [i \in 1..Len(vs) |-> Universal(vs[i])], ty)

wf_type(ctx, ty) ==
    CASE ty.k = "Bool" -> TRUE
      [] ty.k = "Int" -> TRUE
      [] ty.k = "Poly" -> forall_wf(ctx, ty.vars, ty.ty)
      [] ty.k = "Fun" -> arrow_wf(ctx, ty.arg, ty.result)
      [] ty.k = "Var" -> u_var_wf(ctx, ty.n)
      [] ty.k = "Existential" -> evar_wf(ctx, ty.n) \/ solved_evar_wf(ctx, ty.n)

\* mutant: the type is tested in the whole context, not in the prefix
solve_wf_in_whole(ctx, ex, ty) ==
    LET b == break_marker(ctx, ExVar(ex)) IN
    IF b.tag = "Panic" THEN b
    ELSE IF wf_type(ctx, ty)
         THEN Some(push_elems(push(b.before, ExVarSolved(ex, ty)), b.after))
         ELSE None

\* mutant: the elements after the solved one are not pushed back
solve_drops_rest(ctx, ex, ty) ==
    LET b == break_marker(ctx, ExVar(ex)) IN
    IF b.tag = "Panic" THEN b
    ELSE IF wf_type(b.before, ty)
         THEN Some(push(b.before, ExVarSolved(ex, ty)))
         ELSE None

\* solve (GL, a^, GR) a t = (GL, a = t, GR); Panic is break_marker's expect
solve(ctx, ex, ty) ==
    LET b == break_marker(ctx, ExVar(ex)) IN
    IF b.tag = "Panic" THEN b
    ELSE IF wf_type(b.before, ty)
         THEN Some(push_elems(push(b.before, ExVarSolved(ex, ty)), b.after))
         ELSE None

\* mutant: the two existentials are taken in the other order
existentials_ordered_swapped(ctx, ex1, ex2) ==
    LET b == break_marker(ctx, ExVar(ex1)) IN
    IF b.tag = "Panic" THEN b
    ELSE [tag |-> "Ok", val |-> \E i \in 1..Len(b.before) : b.before[i] = ExVar(ex2)]

\* existentials_ordered G a b = True <=> G[a^][b^]
existentials_ordered(ctx, ex1, ex2) ==
    LET b == break_marker(ctx, ExVar(ex2)) IN
    IF b.tag = "Panic" THEN b
    ELSE [tag |-> "Ok", val |-> \E i \in 1..Len(b.before) : b.before[i] = ExVar(ex1)]

\* wf_mut: pops the last element and tests it against the rest
wf_mut(ctx) ==
    IF Len(ctx) = 0 THEN TRUE
    ELSE LET el == ctx[Len(ctx)]
             rest == SubSeq(ctx, 1, Len(ctx) - 1)
         IN CASE el.k = "Universal" -> ~(el.n \in foralls(rest))
              [] el.k = "Anno" -> ~(el.n \in ctx_vars(rest)) /\ wf_type(rest, el.ty)
              [] el.k = "ExVar" -> ~(el.n \in existentials(rest))
              [] el.k = "ExVarSolved" ->
                    ~(el.n \in existentials(rest)) /\ wf_type(rest, el.ty)
              [] el.k = "Marker" ->
                    ~(el.n \in markers(rest)) /\ ~(el.n \in existentials(rest))

wf(ctx) == wf_mut(ctx)

RECURSIVE apply(_, _)
\* mutant: a solution is returned as it stands, without applying ctx to it
apply_once(ctx, ty) ==
    CASE ty.k = "Bool" -> Type_Bool
      [] ty.k = "Int" -> Type_Int
      [] ty.k = "Var" -> Type_Var(ty.n)
      [] ty.k = "Existential" ->
            LET s == find_solved(ctx, ty.n) IN
            IF s.tag = "None" THEN ty ELSE s.ty
      [] ty.k = "Fun" -> Type_Fun(apply(ctx, ty.arg), apply(ctx, ty.result))
      [] ty.k = "Poly" -> Type_Poly(ty.vars, apply(ctx, ty.ty))

apply(ctx, ty) ==
    CASE ty.k = "Bool" -> Type_Bool
      [] ty.k = "Int" -> Type_Int
      [] ty.k = "Var" -> Type_Var(ty.n)
      [] ty.k = "Existential" ->
            LET s == find_solved(ctx, ty.n) IN
            IF s.tag = "None" THEN ty ELSE apply(ctx, s.ty)
      [] ty.k = "Fun" -> Type_Fun(apply(ctx, ty.arg), apply(ctx, ty.result))
      [] ty.k = "Poly" -> Type_Poly(ty.vars, apply(ctx, ty.ty))

(***************************************************************************)
(* Expr (crate::expr, used by bi_types.rs 725-869).                        *)
(***************************************************************************)
Literal_Int(i) == [k |-> "Int", v |-> i]
Literal_Bool(b) == [k |-> "Bool", v |-> b]
Expr_Literal(l) == [k |-> "Literal", lit |-> l]
Expr_Var(v) == [k |-> "Var", n |-> v]
Expr_Ann(e, ty) == [k |-> "Ann", expr |-> e, ty |-> ty]
Expr_Lambda(binder, body) == [k |-> "Lambda", binder |-> binder, body |-> body]
Expr_App(func, arg) == [k |-> "App", func |-> func, arg |-> arg]

\* Expr::subst, the renaming body[x := Var(x')] of infer's lambda rule
RECURSIVE Expr_subst(_, _, _)
Expr_subst(e, var, replacement) ==
    IF e.k = "Literal" THEN e
    ELSE IF e.k = "Var" THEN (IF e.n = var THEN replacement ELSE e)
    ELSE IF e.k = "Ann" THEN Expr_Ann(Expr_subst(e.expr, var, replacement), e.ty)
    ELSE IF e.k = "Lambda" THEN
        (IF e.binder = var THEN e
         ELSE Expr_Lambda(e.binder, Expr_subst(e.body, var, replacement)))
    ELSE Expr_App(Expr_subst(e.func, var, replacement),
                  Expr_subst(e.arg, var, replacement))

(***************************************************************************)
(* TypeError (bi_types.rs 417-423).                                        *)
(***************************************************************************)
TypeError_Subtype(a, b) == [k |-> "Subtype", a |-> a, b |-> b]
TypeError_UnknownVar(v) == [k |-> "UnknownVar", n |-> v]
TypeError_InvalidAnnotation(ty) == [k |-> "InvalidAnnotation", ty |-> ty]
TypeError_IsNotAFunction(ty) == [k |-> "IsNotAFunction", ty |-> ty]
TypeError_ExistentialEscaped(ctx, ty, ex) ==
    [k |-> "ExistentialEscaped", ctx |-> ctx, ty |-> ty, n |-> ex]

(***************************************************************************)
(* NameGen and TypeChecker (bi_types.rs 448-478).  tc is the TypeChecker:  *)
(* gen is name_gen.ty_gen, log the calls that have returned.               *)
(***************************************************************************)
Digit(d) == <<"0", "1", "2", "3", "4", "5", "6", "7", "8", "9">>[d + 1]

\* the decimal digits of n, as format!("{}", n) prints them
RECURSIVE Digits(_)
Digits(n) == IF n < 10 THEN <<Digit(n)>> ELSE Digits(n \div 10) \o <<Digit(n % 10)>>

\* format!("{}v", n)
\* mutant: the counter's value saturates at 3 in the name
GenName_saturating(n) == Digits(IF n > 3 THEN 3 ELSE n) \o <<"v">>

GenName(n) == Digits(n) \o <<"v">>

NameGen_new == 0

TypeChecker_new == [gen |-> NameGen_new, log |-> <<>>]

\* NameGen::fresh_var: the counter after the call, and the name
fresh_var(tc) == [tc |-> [tc EXCEPT !.gen = tc.gen + 1], name |-> GenName(tc.gen + 1)]

\* Result values of the checker's methods; tc is the TypeChecker afterwards
Ok(tc, ctx) == [tag |-> "Ok", tc |-> tc, ctx |-> ctx]
OkTy(tc, ctx, ty) == [tag |-> "Ok", tc |-> tc, ctx |-> ctx, ty |-> ty]
Err(tc, e) == [tag |-> "Err", tc |-> tc, err |-> e]
Panic(tc, m) == [tag |-> "Panic", tc |-> tc, msg |-> m]

\* ghost: record a call that returned (a panic returns nothing)
Logged(fn, ctx, a, b, r) ==
    IF r.tag = "Panic" THEN r
    ELSE [r EXCEPT !.tc.log = Append(@,
            [fn |-> fn, ctx |-> ctx, a |-> a, b |-> b, tag |-> r.tag,
             out |-> IF r.tag = "Ok" THEN r.ctx ELSE <<>>,
             ty |-> IF r.tag = "Ok" /\ fn \in {"infer", "infer_application"}
                    THEN r.ty ELSE <<>>])]

\* the loop of rename_poly: substitute olds[i] by f(news[i]) in order
RECURSIVE rename_loop(_, _, _, _, _)
rename_loop(ty, olds, news, f, i) ==
    IF i > Len(olds) THEN ty
    ELSE rename_loop(
            subst_mut(ty, olds[i],
                      IF f = "Var" THEN Type_Var(news[i]) ELSE Type_Existential(news[i])),
            olds, news, f, i + 1)

\* rename_poly: f is the constructor applied to the fresh names
rename_poly(tc, vs, ty, f) ==
    LET fresh == [i \in 1..Len(vs) |-> GenName(tc.gen + i)] IN
    [tc |-> [tc EXCEPT !.gen = tc.gen + Len(vs)],
     ty |-> rename_loop(ty, vs, fresh, f, 1),
     fresh_vars |-> fresh]

\* mutant: the solved entry comes before the existentials it mentions
Articulation_solved_first(ex, a1, a2) ==
    <<ExVarSolved(ex, Type_Fun(Type_Existential(a1), Type_Existential(a2))),
      ExVar(a2), ExVar(a1)>>

\* the three elements that articulate ex into a1 -> a2
Articulation(ex, a1, a2) ==
    <<ExVar(a2), ExVar(a1),
      ExVarSolved(ex, Type_Fun(Type_Existential(a1), Type_Existential(a2)))>>

\* mutant: the result of the recursive call is returned as it is
DropAndReturn_no_drop(r, marker) == r

\* `res.drop_marker(m); Ok(res)` after a successful recursive call r
DropAndReturn(r, marker) ==
    IF r.tag # "Ok" THEN r
    ELSE LET d == drop_marker(r.ctx, marker) IN
         IF d.tag = "Panic" THEN Panic(r.tc, d.msg) ELSE [r EXCEPT !.ctx = d.ctx]

\* a method call of the TypeChecker: fn names the method, a and b are its
\* two arguments after the context (infer takes one, b is unused)
RECURSIVE Call(_, _, _, _, _)

subtype(tc, ctx, ty1, ty2) ==
    IF ~wf_type(ctx, ty1) \/ ~wf_type(ctx, ty2)
    THEN Panic(tc, "assertion failed: ctx.wf_type")
    ELSE Logged("subtype", ctx, ty1, ty2,
      IF ty1.k = "Int" /\ ty2.k = "Int" THEN Ok(tc, ctx)
      ELSE IF ty1.k = "Bool" /\ ty2.k = "Bool" THEN Ok(tc, ctx)
      ELSE IF ty1.k = "Var" /\ ty2.k = "Var" /\ ty1.n = ty2.n THEN Ok(tc, ctx)
      ELSE IF ty1.k = "Existential" /\ ty2.k = "Existential" /\ ty1.n = ty2.n
      THEN Ok(tc, ctx)
      ELSE IF ty1.k = "Fun" /\ ty2.k = "Fun" THEN
        LET r1 == Call("subtype", tc, ctx, ty2.arg, ty1.arg) IN
        IF r1.tag # "Ok" THEN r1
        ELSE Call("subtype", r1.tc, r1.ctx, apply(r1.ctx, ty1.result), apply(r1.ctx, ty2.result))
      ELSE IF ty2.k = "Poly" THEN
        LET rn == rename_poly(tc, ty2.vars, ty2.ty, "Var") IN
        IF Len(rn.fresh_vars) = 0 THEN Panic(rn.tc, "index out of bounds")
        ELSE LET tmp_ctx == push_elems(ctx,
                    [i \in 1..Len(rn.fresh_vars) |-> Universal(rn.fresh_vars[i])])
             IN DropAndReturn(Call("subtype", rn.tc, tmp_ctx, ty1, rn.ty),
                              Universal(rn.fresh_vars[1]))
      ELSE IF ty1.k = "Poly" THEN
        LET rn == rename_poly(tc, ty1.vars, ty1.ty, "Existential") IN
        IF Len(rn.fresh_vars) = 0 THEN Panic(rn.tc, "index out of bounds")
        ELSE LET tmp_ctx == push_elems(ctx,
                    [i \in 1..(2 * Len(rn.fresh_vars)) |->
                        IF i % 2 = 1 THEN Marker(rn.fresh_vars[(i + 1) \div 2])
                        ELSE ExVar(rn.fresh_vars[i \div 2])])
             IN DropAndReturn(Call("subtype", rn.tc, tmp_ctx, rn.ty, ty2),
                              Marker(rn.fresh_vars[1]))
      ELSE IF ty1.k = "Existential" /\ ~(ty1.n \in free_vars(ty2))
      THEN Call("instantiate_l", tc, ctx, ty1.n, ty2)
      ELSE IF ty2.k = "Existential" /\ ~(ty2.n \in free_vars(ty1))
      THEN Call("instantiate_r", tc, ctx, ty1, ty2.n)
      ELSE Err(tc, TypeError_Subtype(ty1, ty2)))

\* InstLSolve / InstRSolve (634-647, 706-720), the same code in both
InstSolve(tc, ctx, ex, ty) ==
    LET tmp == drop_marker(ctx, ExVar(ex)) IN
    IF tmp.tag = "Panic" THEN Panic(tc, tmp.msg)
    ELSE IF wf_type(tmp.ctx, ty)
         THEN LET s == solve(ctx, ex, ty) IN
              IF s.tag = "Some" THEN Ok(tc, s.ctx)
              ELSE Panic(tc, "called Option::unwrap() on a None value")
         ELSE Err(tc, TypeError_ExistentialEscaped(tmp.ctx, ty, ex))

\* mutant: the earlier existential is the one solved, to the later one
InstReach_solves_earlier(tc, ctx, ex, ex2) ==
    LET s == solve(ctx, ex, Type_Existential(ex2)) IN
    IF s.tag = "Some" THEN Ok(tc, s.ctx)
    ELSE Panic(tc, "attempted to solve non-existent existential")

\* InstLReach / InstRReach (590-596, 664-667): solve ex2 := ex
InstReach(tc, ctx, ex, ex2) ==
    LET s == solve(ctx, ex2, Type_Existential(ex)) IN
    IF s.tag = "Some" THEN Ok(tc, s.ctx)
    ELSE Panic(tc, "attempted to solve non-existent existential")

instantiate_l(tc, ctx, ex, ty) ==
    LET ord == IF ty.k = "Existential" THEN existentials_ordered(ctx, ex, ty.n)
               ELSE [tag |-> "Ok", val |-> FALSE] IN
    IF ord.tag = "Panic" THEN Panic(tc, ord.msg)
    ELSE Logged("instantiate_l", ctx, Type_Existential(ex), ty,
      IF ty.k = "Existential" /\ ord.val THEN InstReach(tc, ctx, ex, ty.n)
      ELSE IF ty.k = "Fun" THEN
        LET f2 == fresh_var(tc)
            f1 == fresh_var(f2.tc)
            a2 == f2.name
            a1 == f1.name
            tmp_ctx == insert_at_ex(ctx, ex, Articulation(ex, a1, a2))
        IN IF tmp_ctx.tag = "Panic" THEN Panic(f1.tc, tmp_ctx.msg)
           ELSE LET omega == Call("instantiate_r", f1.tc, tmp_ctx.ctx, ty.arg, a1) IN
                IF omega.tag # "Ok" THEN omega
                ELSE Call("instantiate_l", omega.tc, omega.ctx, a2, apply(omega.ctx, ty.result))
      ELSE IF ty.k = "Poly" THEN
        LET rn == rename_poly(tc, ty.vars, ty.ty, "Existential")
            new_ctx == push_elems(ctx,
                    [i \in 1..Len(rn.fresh_vars) |-> Universal(rn.fresh_vars[i])])
            res == Call("instantiate_r", rn.tc, new_ctx, rn.ty, ex)
        IN IF res.tag # "Ok" THEN res
           ELSE IF Len(rn.fresh_vars) = 0 THEN Panic(res.tc, "index out of bounds")
           ELSE DropAndReturn(res, Marker(rn.fresh_vars[1]))
      ELSE IF is_mono(ty) THEN InstSolve(tc, ctx, ex, ty)
      ELSE Panic(tc, "unreachable: InstLSolve"))

instantiate_r(tc, ctx, ty, ex) ==
    LET ord == IF ty.k = "Existential" THEN existentials_ordered(ctx, ex, ty.n)
               ELSE [tag |-> "Ok", val |-> FALSE] IN
    IF ord.tag = "Panic" THEN Panic(tc, ord.msg)
    ELSE Logged("instantiate_r", ctx, ty, Type_Existential(ex),
      IF ty.k = "Existential" /\ ord.val THEN InstReach(tc, ctx, ex, ty.n)
      ELSE IF ty.k = "Fun" THEN
        LET f1 == fresh_var(tc)
            f2 == fresh_var(f1.tc)
            a1 == f1.name
            a2 == f2.name
            tmp_ctx == insert_at_ex(ctx, ex, Articulation(ex, a1, a2))
        IN IF tmp_ctx.tag = "Panic" THEN Panic(f2.tc, tmp_ctx.msg)
           ELSE LET omega == Call("instantiate_l", f2.tc, tmp_ctx.ctx, a1, ty.arg) IN
                IF omega.tag # "Ok" THEN omega
                ELSE Call("instantiate_r", omega.tc, omega.ctx, apply(omega.ctx, ty.result), a2)
      ELSE IF ty.k = "Poly" THEN
        LET rn == rename_poly(tc, ty.vars, ty.ty, "Existential") IN
        IF Len(rn.fresh_vars) = 0 THEN Panic(rn.tc, "index out of bounds")
        ELSE LET new_ctx == push_elems(ctx,
                    [i \in 1..(2 * Len(rn.fresh_vars)) |->
                        IF i % 2 = 1 THEN Marker(rn.fresh_vars[(i + 1) \div 2])
                        ELSE ExVar(rn.fresh_vars[i \div 2])])
             IN DropAndReturn(Call("instantiate_r", rn.tc, new_ctx, rn.ty, ex),
                              Marker(rn.fresh_vars[1]))
      ELSE IF is_mono(ty) THEN InstSolve(tc, ctx, ex, ty)
      ELSE Panic(tc, "unreachable: InstRSolve"))

check(tc, ctx, e, ty) ==
    Logged("check", ctx, e, ty,
      IF e.k = "Literal" /\ e.lit.k = "Int" /\ ty.k = "Int" THEN Ok(tc, ctx)
      ELSE IF e.k = "Literal" /\ e.lit.k = "Bool" /\ ty.k = "Bool" THEN Ok(tc, ctx)
      ELSE IF e.k = "Lambda" /\ ty.k = "Fun" THEN
        LET anno_elem == Anno(e.binder, ty.arg)
            new_ctx == push(ctx, anno_elem)
        IN DropAndReturn(Call("check", tc, new_ctx, e.body, ty.result), anno_elem)
      ELSE IF ty.k = "Poly" THEN
        LET rn == rename_poly(tc, ty.vars, ty.ty, "Var") IN
        IF Len(rn.fresh_vars) = 0 THEN Panic(rn.tc, "index out of bounds")
        ELSE LET tmp_ctx == push_elems(ctx,
                    [i \in 1..Len(rn.fresh_vars) |-> Universal(rn.fresh_vars[i])])
             IN DropAndReturn(Call("check", rn.tc, tmp_ctx, e, rn.ty),
                              Universal(rn.fresh_vars[1]))
      ELSE
        LET r == Call("infer", tc, ctx, e, <<>>) IN
        IF r.tag # "Ok" THEN r
        ELSE Call("subtype", r.tc, r.ctx, apply(r.ctx, r.ty), apply(r.ctx, ty)))

infer(tc, ctx, e) ==
    Logged("infer", ctx, e, <<>>,
      IF e.k = "Literal" /\ e.lit.k = "Int" THEN OkTy(tc, ctx, Type_Int)
      ELSE IF e.k = "Literal" /\ e.lit.k = "Bool" THEN OkTy(tc, ctx, Type_Bool)
      ELSE IF e.k = "Var" THEN
        LET res == find_var(ctx, e.n) IN
        IF res.tag = "Some" THEN OkTy(tc, ctx, res.ty)
        ELSE Err(tc, TypeError_UnknownVar(e.n))
      ELSE IF e.k = "Ann" THEN
        IF wf_type(ctx, e.ty)
        THEN LET r == Call("check", tc, ctx, e.expr, e.ty) IN
             IF r.tag # "Ok" THEN r ELSE OkTy(r.tc, r.ctx, e.ty)
        ELSE Err(tc, TypeError_InvalidAnnotation(e.ty))
      ELSE IF e.k = "Lambda" THEN
        LET fx == fresh_var(tc)
            fa == fresh_var(fx.tc)
            fb == fresh_var(fa.tc)
            binder_fresh == fx.name
            a == fa.name
            b == fb.name
            marker == Anno(binder_fresh, Type_Existential(a))
            tmp_ctx == push_elems(ctx, <<ExVar(a), ExVar(b), marker>>)
            res == DropAndReturn(
                     Call("check", fb.tc, tmp_ctx,
                           Expr_subst(e.body, e.binder, Expr_Var(binder_fresh)),
                           Type_Existential(b)),
                     marker)
        IN IF res.tag # "Ok" THEN res
           ELSE OkTy(res.tc, res.ctx, Type_Fun(Type_Existential(a), Type_Existential(b)))
      ELSE
        LET r == Call("infer", tc, ctx, e.func, <<>>) IN
        IF r.tag # "Ok" THEN r
        ELSE Call("infer_application", r.tc, r.ctx, apply(r.ctx, r.ty), e.arg))

infer_application(tc, ctx, ty, e) ==
    Logged("infer_application", ctx, ty, e,
      IF ty.k = "Poly" THEN
        LET rn == rename_poly(tc, ty.vars, ty.ty, "Existential")
            new_ctx == push_elems(ctx,
                    [i \in 1..Len(rn.fresh_vars) |-> ExVar(rn.fresh_vars[i])])
        IN Call("infer_application", rn.tc, new_ctx, rn.ty, e)
      ELSE IF ty.k = "Existential" THEN
        LET f1 == fresh_var(tc)
            f2 == fresh_var(f1.tc)
            a1 == f1.name
            a2 == f2.name
            new_ctx == insert_at_ex(ctx, ty.n, Articulation(ty.n, a1, a2))
        IN IF new_ctx.tag = "Panic" THEN Panic(f2.tc, new_ctx.msg)
           ELSE LET r == Call("check", f2.tc, new_ctx.ctx, e, Type_Existential(a1)) IN
                IF r.tag # "Ok" THEN r
                ELSE OkTy(r.tc, r.ctx, Type_Existential(a2))
      ELSE IF ty.k = "Fun" THEN
        LET r == Call("check", tc, ctx, e, ty.arg) IN
        IF r.tag # "Ok" THEN r
        ELSE OkTy(r.tc, r.ctx, apply(r.ctx, ty.result))
      ELSE Err(tc, TypeError_IsNotAFunction(ty)))

Call(fn, tc, ctx, a, b) ==
    IF fn = "subtype" THEN subtype(tc, ctx, a, b)
    ELSE IF fn = "instantiate_l" THEN instantiate_l(tc, ctx, a, b)
    ELSE IF fn = "instantiate_r" THEN instantiate_r(tc, ctx, a, b)
    ELSE IF fn = "check" THEN check(tc, ctx, a, b)
    ELSE IF fn = "infer" THEN infer(tc, ctx, a)
    ELSE infer_application(tc, ctx, a, b)

\* mutant: the inferred type is returned without applying the final context
synth_no_apply(tc, e) == Call("infer", tc, <<>>, e, <<>>)

\* synth: infer in the empty context, then apply the final context
synth(tc, e) ==
    LET r == Call("infer", tc, <<>>, e, <<>>) IN
    IF r.tag # "Ok" THEN r ELSE [r EXCEPT !.ty = apply(r.ctx, r.ty)]

(***************************************************************************)
(* The evaluator (src/src/eval.rs): Eval { supply } and its capture-       *)
(* avoiding substitution.  Its expressions have no annotations.            *)
(***************************************************************************)
\* Expr::free_vars
RECURSIVE Expr_free_vars(_)
Expr_free_vars(e) ==
    IF e.k = "Var" THEN {e.n}
    ELSE IF e.k = "Lambda" THEN Expr_free_vars(e.body) \ {e.binder}
    ELSE IF e.k = "App" THEN Expr_free_vars(e.func) \cup Expr_free_vars(e.arg)
    ELSE IF e.k = "Ann" THEN Expr_free_vars(e.expr)
    ELSE {}

\* Eval::new: supply
Eval_new == 0

\* mutant: the binder is returned as its own fresh name
Eval_fresh_var_same_name(supply, v) == [supply |-> supply + 1, name |-> v]

\* Eval::fresh_var: format!("{}{}", self.supply, var) after the increment
Eval_fresh_var(supply, v) == [supply |-> supply + 1, name |-> Digits(supply + 1) \o v]

\* Eval::substitute; the result holds the supply afterwards
RECURSIVE Eval_substitute(_, _, _, _)
Eval_substitute(supply, e, scrutinee, replacement) ==
    IF e.k = "Var" THEN
        [supply |-> supply, expr |-> IF scrutinee = e.n THEN replacement ELSE e]
    ELSE IF e.k = "Lambda" THEN
        IF e.binder = scrutinee THEN [supply |-> supply, expr |-> e]
        ELSE IF e.binder \in Expr_free_vars(replacement) THEN
            LET fr == Eval_fresh_var(supply, e.binder)
                new_binder == fr.name
                renamed_body ==
                    Eval_substitute(fr.supply, e.body, e.binder, Expr_Var(new_binder))
                new_body ==
                    Eval_substitute(renamed_body.supply, renamed_body.expr,
                                    scrutinee, replacement)
            IN [supply |-> new_body.supply,
                expr |-> Expr_Lambda(new_binder, new_body.expr)]
        ELSE
            LET new_body == Eval_substitute(supply, e.body, scrutinee, replacement)
            IN [supply |-> new_body.supply,
                expr |-> Expr_Lambda(e.binder, new_body.expr)]
    ELSE IF e.k = "App" THEN
        LET sf == Eval_substitute(supply, e.func, scrutinee, replacement)
            sa == Eval_substitute(sf.supply, e.arg, scrutinee, replacement)
        IN [supply |-> sa.supply, expr |-> Expr_App(sf.expr, sa.expr)]
    ELSE [supply |-> supply, expr |-> e]

(***************************************************************************)
(* The inputs: identifiers, annotation types and expressions.              *)
(***************************************************************************)
x == <<"x">>
y == <<"y">>
f == <<"f">>
a == <<"a">>
b == <<"b">>

\* the literals of the input expressions
Literals ==
    {Expr_Literal(Literal_Int(i)) : i \in 0..MaxLit}
        \cup {Expr_Literal(Literal_Bool(v)) : v \in BOOLEAN}

ForallId(v) == Type_Poly(<<v>>, Type_Fun(Type_Var(v), Type_Var(v)))

\* the existential-free types written in annotations (a alone is not in scope)
AnnTypes ==
    {Type_Int, Type_Bool, Type_Var(a),
     Type_Fun(Type_Int, Type_Int),
     Type_Poly(<<a>>, Type_Var(a)),
     ForallId(a),
     Type_Fun(Type_Int, Type_Poly(<<a>>, Type_Var(a))),
     Type_Fun(Type_Poly(<<a>>, Type_Var(a)), Type_Int)}

Binders == {x, y}

\* the expressions with exactly n nodes
RECURSIVE ExprsOfSize(_)
ExprsOfSize(n) ==
    IF n <= 0 THEN {}
    ELSE IF n = 1 THEN Literals \cup {Expr_Var(v) : v \in Binders}
    ELSE {Expr_Lambda(v, e) : v \in Binders, e \in ExprsOfSize(n - 1)}
         \cup {Expr_Ann(e, ty) : e \in ExprsOfSize(n - 1), ty \in AnnTypes}
         \cup UNION {{Expr_App(e1, e2) : e1 \in ExprsOfSize(i),
                                         e2 \in ExprsOfSize(n - 1 - i)}
                     : i \in 1..(n - 2)}

IdLambda(v) == Expr_Lambda(v, Expr_Var(v))
IdAnn(v, t) == Expr_Ann(IdLambda(v), ForallId(t))
\* \x. x x
SelfApp == Expr_Lambda(x, Expr_App(Expr_Var(x), Expr_Var(x)))
\* \f. \x. f (f x)
Twice ==
    Expr_Lambda(f, Expr_Lambda(x,
        Expr_App(Expr_Var(f), Expr_App(Expr_Var(f), Expr_Var(x)))))
\* ((\x. x) :: forall a. a -> a) ((\y. y) :: forall b. b -> b)
IdId == Expr_App(IdAnn(x, a), IdAnn(y, b))
\* (\x. \x. x) :: Int -> Bool -> Bool
Shadow ==
    Expr_Ann(Expr_Lambda(x, Expr_Lambda(x, Expr_Var(x))),
             Type_Fun(Type_Int, Type_Fun(Type_Bool, Type_Bool)))

\* (\x. \x. x) :: Int -> Int -> Int
ShadowSame ==
    Expr_Ann(Expr_Lambda(x, Expr_Lambda(x, Expr_Var(x))),
             Type_Fun(Type_Int, Type_Fun(Type_Int, Type_Int)))

\* the end-to-end scenarios of the specification
Scenarios ==
    {Expr_App(IdAnn(x, a), l) : l \in Literals}
        \cup {Expr_App(IdLambda(x), l) : l \in Literals}
        \cup {SelfApp, Twice, IdId, Shadow, ShadowSame}

Exprs == UNION {ExprsOfSize(n) : n \in 1..MaxSize} \cup Scenarios

NoExpr == [k |-> "None"]
NoResult == [tag |-> "None"]
NoArgs == [op |-> "None"]

(***************************************************************************)
(* The TypeChecker's life: TypeChecker::new(), then synth(&mut self, e)    *)
(* for one expression after the other (ty_gen is never reset), or a new    *)
(* TypeChecker per expression as the REPL's run_term makes.  A panic ends  *)
(* the process.                                                            *)
(***************************************************************************)
Init ==
    /\ pc = "idle"
    /\ name_gen = NameGen_new
    /\ expr = NoExpr
    /\ result = NoResult
    /\ args = NoArgs

\* an expression arrives from the parser
Read(e) ==
    /\ pc = "idle"
    /\ pc' = "ready"
    /\ expr' = e
    /\ UNCHANGED <<name_gen, result, args>>

\* TypeChecker::synth(&mut self, &expr)
Synth ==
    /\ pc = "ready"
    /\ result' = synth([gen |-> name_gen, log |-> <<>>], expr)
    /\ name_gen' = result'.tc.gen
    /\ pc' = IF result'.tag = "Panic" THEN "panicked" ELSE "done"
    /\ args' = [op |-> "synth", gen |-> name_gen]
    /\ UNCHANGED expr

\* the same TypeChecker takes the next expression
Reuse ==
    /\ pc = "done"
    /\ name_gen <= MaxGenStart
    /\ pc' = "idle"
    /\ expr' = NoExpr
    /\ result' = NoResult
    /\ args' = NoArgs
    /\ UNCHANGED name_gen

\* run_term: a new TypeChecker for the next expression
Renew ==
    /\ pc = "done"
    /\ pc' = "idle"
    /\ name_gen' = NameGen_new
    /\ expr' = NoExpr
    /\ result' = NoResult
    /\ args' = NoArgs

Next ==
    \/ \E e \in Exprs : Read(e)
    \/ Synth
    \/ Reuse
    \/ Renew

Spec == Init /\ [][Next]_vars

(***************************************************************************)
(* The context primitives and subtype called on their own, as the tests    *)
(* solve_ex and subty of bi_types.rs call them: a hand-built context over  *)
(* written names and a TypeChecker fresh from TypeChecker::new().          *)
(***************************************************************************)
alpha == <<"alpha">>
beta == <<"beta">>
m == <<"m">>
var == <<"var">>

\* all sequences over S of length at most n
RECURSIVE SeqsUpTo(_, _)
SeqsUpTo(S, n) ==
    IF n = 0 THEN {<<>>}
    ELSE LET shorter == SeqsUpTo(S, n - 1) IN
         shorter \cup {Append(c, e) : c \in shorter, e \in S}

SolveElems ==
    {Universal(x), ExVar(alpha), ExVar(beta), ExVarSolved(beta, Type_Int),
     Marker(m), Anno(var, Type_Int)}

SolveTypes ==
    {Type_Int, Type_Var(x), Type_Var(y), Type_Existential(beta),
     Type_Fun(Type_Var(x), Type_Existential(beta)),
     Type_Poly(<<a>>, Type_Var(a))}

InitSolve ==
    /\ pc = "test"
    /\ name_gen = NameGen_new
    /\ expr = NoExpr
    /\ result = NoResult
    /\ args \in {[op |-> "solve", ctx |-> c, ex |-> e, ty |-> t] :
                    c \in SeqsUpTo(SolveElems, MaxCtxLen),
                    e \in {alpha, beta}, t \in SolveTypes}

\* ctx.solve(&ex, ty)
Solve ==
    /\ pc = "test"
    /\ args.op = "solve"
    /\ result' = solve(args.ctx, args.ex, args.ty)
    /\ pc' = IF result'.tag = "Panic" THEN "panicked" ELSE "done"
    /\ UNCHANGED <<name_gen, expr, args>>

NextSolve == Solve

SpecSolve == InitSolve /\ [][NextSolve]_vars

SubtyElems ==
    {Universal(x), ExVar(alpha), ExVarSolved(beta, Type_Int), Marker(m),
     Anno(var, Type_Int)}

SubtyTypes ==
    {Type_Int, Type_Bool, Type_Var(x), Type_Existential(alpha),
     Type_Fun(Type_Int, Type_Int), Type_Fun(Type_Var(x), Type_Int),
     Type_Poly(<<a>>, Type_Var(a)), ForallId(a),
     Type_Poly(<<a, b>>, Type_Fun(Type_Var(a), Type_Var(b))),
     Type_Poly(<<a>>, Type_Existential(alpha))}

InitSubty ==
    /\ pc = "test"
    /\ name_gen = NameGen_new
    /\ expr = NoExpr
    /\ result = NoResult
    /\ args \in {[op |-> "subtype", ctx |-> c, ty1 |-> t1, ty2 |-> t2] :
                    c \in {d \in SeqsUpTo(SubtyElems, MaxCtxLen) :
                              \A i \in 1..Len(d) : wf_mut(SubSeq(d, 1, i))},
                    t1 \in SubtyTypes, t2 \in SubtyTypes}

\* tc.subtype(ctx, &ty1, &ty2)
Subtype ==
    /\ pc = "test"
    /\ args.op = "subtype"
    /\ result' = Call("subtype", [gen |-> name_gen, log |-> <<>>],
                       args.ctx, args.ty1, args.ty2)
    /\ name_gen' = result'.tc.gen
    /\ pc' = IF result'.tag = "Panic" THEN "panicked" ELSE "done"
    /\ UNCHANGED <<expr, args>>

NextSubty == Subtype

SpecSubty == InitSubty /\ [][NextSubty]_vars

(***************************************************************************)
(* Context::wf and Context::existentials_ordered called on a hand-built    *)
(* context, well-formed or not.                                            *)
(***************************************************************************)
CtxElems ==
    {Universal(a), ExVar(b), ExVarSolved(b, Type_Int), ExVar(alpha),
     Marker(m), Anno(var, Type_Var(a))}

InitCtx ==
    /\ pc = "test"
    /\ name_gen = NameGen_new
    /\ expr = NoExpr
    /\ result = NoResult
    /\ args \in {[op |-> "wf", ctx |-> c] : c \in SeqsUpTo(CtxElems, MaxCtxLen)}
          \cup {[op |-> "existentials_ordered", ctx |-> c, ex1 |-> e1, ex2 |-> e2] :
                    c \in SeqsUpTo(CtxElems, MaxCtxLen),
                    e1 \in {alpha, b}, e2 \in {alpha, b}}

\* ctx.wf()
Wf ==
    /\ pc = "test"
    /\ args.op = "wf"
    /\ result' = [tag |-> "Ok", val |-> wf(args.ctx)]
    /\ pc' = "done"
    /\ UNCHANGED <<name_gen, expr, args>>

\* ctx.existentials_ordered(&ex1, &ex2)
ExistentialsOrdered ==
    /\ pc = "test"
    /\ args.op = "existentials_ordered"
    /\ result' = existentials_ordered(args.ctx, args.ex1, args.ex2)
    /\ pc' = IF result'.tag = "Panic" THEN "panicked" ELSE "done"
    /\ UNCHANGED <<name_gen, expr, args>>

NextCtx == Wf \/ ExistentialsOrdered

SpecCtx == InitCtx /\ [][NextCtx]_vars

(***************************************************************************)
(* Eval::substitute called as Eval::eval calls it: on expressions whose    *)
(* names are identifiers of the lexer (a letter first) or names this Eval  *)
(* generated before (a counter value up to supply in front).               *)
(***************************************************************************)
\* the names an expression can hold when the counter is at supply
EvalNames(supply) == {x, y} \cup {Digits(k) \o y : k \in 1..supply}

\* the expressions with exactly n nodes over the names N
RECURSIVE EvalExprsOfSize(_, _)
EvalExprsOfSize(N, n) ==
    IF n <= 0 THEN {}
    ELSE IF n = 1 THEN {Expr_Var(v) : v \in N} \cup {Expr_Literal(Literal_Int(0))}
    ELSE {Expr_Lambda(v, e) : v \in N, e \in EvalExprsOfSize(N, n - 1)}
         \cup UNION {{Expr_App(e1, e2) : e1 \in EvalExprsOfSize(N, i),
                                         e2 \in EvalExprsOfSize(N, n - 1 - i)}
                     : i \in 1..(n - 2)}

EvalExprs(N) == UNION {EvalExprsOfSize(N, n) : n \in 1..MaxEvalSize}

\* the values substituted: variables, an application, an abstraction
EvalReplacements(N) ==
    {Expr_Var(v) : v \in N}
        \cup {Expr_App(Expr_Var(x), Expr_Var(y)), Expr_Lambda(x, Expr_Var(y))}

InitEval ==
    /\ pc = "test"
    /\ name_gen = NameGen_new
    /\ expr = NoExpr
    /\ result = NoResult
    /\ args \in UNION {{[op |-> "substitute", supply |-> s, e |-> e,
                         scrutinee |-> v, replacement |-> r] :
                            e \in EvalExprs(EvalNames(s)), v \in {x, y},
                            r \in EvalReplacements(EvalNames(s))}
                       : s \in Eval_new..MaxSupply}

\* self.substitute(&expr, &scrutinee, &replacement)
Substitute ==
    /\ pc = "test"
    /\ args.op = "substitute"
    /\ result' = Eval_substitute(args.supply, args.e, args.scrutinee, args.replacement)
    /\ pc' = "done"
    /\ UNCHANGED <<name_gen, expr, args>>

NextEval == Substitute

SpecEval == InitEval /\ [][NextEval]_vars

(***************************************************************************)
(* Type::subst and Type::subst_mut called on a type, as the tests          *)
(* subst_mut and subst_mut_fun call them.                                  *)
(***************************************************************************)
TypeAtoms ==
    {Type_Int, Type_Var(a), Type_Var(b), Type_Existential(alpha), Type_Existential(a)}

RECURSIVE TypesOfDepth(_)
TypesOfDepth(d) ==
    IF d = 0 THEN TypeAtoms
    ELSE LET T == TypesOfDepth(d - 1) IN
         T \cup {Type_Fun(t, u) : t \in T, u \in TypeAtoms}
           \cup {Type_Fun(u, t) : t \in T, u \in TypeAtoms}
           \cup {Type_Poly(vs, t) : vs \in {<<a>>, <<b>>, <<a, b>>}, t \in T}

\* the types substituted for a name
SubstReplacements ==
    TypeAtoms \cup {Type_Bool, Type_Fun(Type_Var(a), Type_Existential(alpha)),
                    Type_Poly(<<b>>, Type_Fun(Type_Var(b), Type_Var(a)))}

InitType ==
    /\ pc = "test"
    /\ name_gen = NameGen_new
    /\ expr = NoExpr
    /\ result = NoResult
    /\ args \in {[op |-> "subst", ty |-> t, var |-> v, replacement |-> r] :
                    t \in TypesOfDepth(MaxTypeDepth), v \in {a, b, alpha},
                    r \in SubstReplacements}

\* ty.subst(&var, &replacement), and ty.subst_mut(&var, &replacement) on a clone
Subst ==
    /\ pc = "test"
    /\ args.op = "subst"
    /\ result' = [tag |-> "Ok",
                  ty |-> subst(args.ty, args.var, args.replacement),
                  ty_mut |-> subst_mut(args.ty, args.var, args.replacement)]
    /\ pc' = "done"
    /\ UNCHANGED <<name_gen, expr, args>>

NextType == Subst

SpecType == InitType /\ [][NextType]_vars

(***************************************************************************)
(* instantiate_l and instantiate_r called as subtype calls them: on a      *)
(* well-formed context that declares ex unsolved, against a type that is   *)
(* well-formed in the context and does not mention ex.                     *)
(***************************************************************************)
InstTypes ==
    {Type_Int, Type_Var(x), Type_Existential(alpha), Type_Existential(beta),
     Type_Fun(Type_Int, Type_Int), Type_Fun(Type_Existential(beta), Type_Var(x)),
     Type_Poly(<<a>>, Type_Var(a)), Type_Poly(<<a>>, Type_Int),
     Type_Poly(<<a>>, Type_Fun(Type_Var(x), Type_Int)), ForallId(a)}

InitInst ==
    /\ pc = "test"
    /\ name_gen = NameGen_new
    /\ expr = NoExpr
    /\ result = NoResult
    /\ args \in {[op |-> o, ctx |-> c, ex |-> e, ty |-> t] :
                    o \in {"instantiate_l", "instantiate_r"},
                    c \in {d \in SeqsUpTo(SolveElems, MaxCtxLen) :
                              \A i \in 1..Len(d) : wf_mut(SubSeq(d, 1, i))},
                    e \in {alpha, beta},
                    t \in InstTypes}
    /\ elem(args.ctx, ExVar(args.ex))
    /\ wf_type(args.ctx, args.ty)
    /\ ~(args.ex \in free_vars(args.ty))

\* self.instantiate_l(ctx, &ex, &ty)
Instantiate_l ==
    /\ pc = "test"
    /\ args.op = "instantiate_l"
    /\ result' = Call("instantiate_l", [gen |-> name_gen, log |-> <<>>],
                       args.ctx, args.ex, args.ty)
    /\ name_gen' = result'.tc.gen
    /\ pc' = IF result'.tag = "Panic" THEN "panicked" ELSE "done"
    /\ UNCHANGED <<expr, args>>

\* self.instantiate_r(ctx, &ty, &ex)
Instantiate_r ==
    /\ pc = "test"
    /\ args.op = "instantiate_r"
    /\ result' = Call("instantiate_r", [gen |-> name_gen, log |-> <<>>],
                       args.ctx, args.ty, args.ex)
    /\ name_gen' = result'.tc.gen
    /\ pc' = IF result'.tag = "Panic" THEN "panicked" ELSE "done"
    /\ UNCHANGED <<expr, args>>

NextInst == Instantiate_l \/ Instantiate_r

SpecInst == InitInst /\ [][NextInst]_vars

(***************************************************************************)
(* subtype called on a type and itself, as the test subty calls it on a    *)
(* hand-built context: the type is existential-free and well-formed in     *)
(* the context; the TypeChecker is new or has issued FarGenStart names.    *)
(***************************************************************************)
ReflAtoms == {Type_Int, Type_Bool, Type_Var(x), Type_Var(a), Type_Var(b)}

RECURSIVE ReflTypesOfDepth(_)
ReflTypesOfDepth(d) ==
    IF d = 0 THEN ReflAtoms
    ELSE LET T == ReflTypesOfDepth(d - 1) IN
         T \cup {Type_Fun(t, u) : t \in T, u \in {Type_Int, Type_Var(a)}}
           \cup {Type_Fun(u, t) : t \in T, u \in {Type_Int, Type_Var(a)}}
           \cup {Type_Poly(vs, t) : vs \in {<<a>>, <<a, b>>}, t \in T}

\* types with a Poly on both sides of an arrow, a shadowed binder, a bound
\* variable used on both sides of an inner arrow, and names of the generator
ReflExtras ==
    {Type_Fun(Type_Poly(<<a>>, Type_Var(a)), Type_Poly(<<a>>, Type_Var(a))),
     Type_Fun(ForallId(a), ForallId(a)),
     Type_Poly(<<a>>, Type_Poly(<<a>>, Type_Var(a))),
     Type_Poly(<<a>>, Type_Fun(Type_Fun(Type_Var(a), Type_Var(a)),
                               Type_Fun(Type_Var(a), Type_Var(a)))),
     Type_Poly(<<a>>, Type_Fun(Type_Poly(<<b>>, Type_Fun(Type_Var(b), Type_Var(a))),
                               Type_Int)),
     Type_Var(GenName(1)),
     Type_Poly(<<a>>, Type_Fun(Type_Var(GenName(1)), Type_Var(a))),
     Type_Poly(<<a>>, Type_Poly(<<GenName(1)>>,
                                Type_Fun(Type_Var(a), Type_Var(GenName(1)))))}

ReflElems ==
    {Universal(x), ExVar(alpha), Anno(var, Type_Int),
     Universal(GenName(1)), Marker(GenName(2))}

InitRefl ==
    /\ pc = "test"
    /\ name_gen \in {NameGen_new, FarGenStart}
    /\ expr = NoExpr
    /\ result = NoResult
    /\ args \in {[op |-> "subtype", gen |-> name_gen, ctx |-> c, ty1 |-> t, ty2 |-> t] :
                    c \in {d \in SeqsUpTo(ReflElems, MaxCtxLen) :
                              \A i \in 1..Len(d) : wf_mut(SubSeq(d, 1, i))},
                    t \in ReflTypesOfDepth(MaxReflDepth) \cup ReflExtras}
    /\ wf_type(args.ctx, args.ty1)

NextRefl == Subtype

SpecRefl == InitRefl /\ [][NextRefl]_vars

(***************************************************************************)
(* Vocabulary of the properties.                                           *)
(***************************************************************************)
\* synth has run on expr: it returned (done) or panicked
Finished == pc \in {"done", "panicked"}

\* synth ran on a TypeChecker fresh from TypeChecker::new()
FreshRun == Finished /\ args.op = "synth" /\ args.gen = NameGen_new

\* the calls of the run that returned, in the order of their return
Calls == IF Finished /\ args.op \in {"synth", "subtype"} THEN result.tc.log ELSE <<>>

TheFiveErrors ==
    {"Subtype", "UnknownVar", "InvalidAnnotation", "IsNotAFunction",
     "ExistentialEscaped"}

\* ty is a1 -> a1 for one existential a1 that is declared unsolved in ctx
MonoIdentity(ctx, ty) ==
    /\ ty.k = "Fun"
    /\ ty.arg.k = "Existential"
    /\ ty.result = ty.arg
    /\ elem(ctx, ExVar(ty.arg.n))

\* ty is forall v. v -> v for some bound variable v
PolyIdentity(ty) ==
    /\ ty.k = "Poly"
    /\ Len(ty.vars) = 1
    /\ ty.ty = Type_Fun(Type_Var(ty.vars[1]), Type_Var(ty.vars[1]))

\* C1: synth on a fresh TypeChecker returns Ok or one of the five TypeErrors;
\* no expect / unwrap / unreachable / assert of the engine is ever hit.
C1_NeverPanics ==
    FreshRun =>
        /\ pc = "done"
        /\ result.tag \in {"Ok", "Err"}
        /\ result.tag = "Err" => result.err.k \in TheFiveErrors

\* C2 (as claimed): synth of \x. x returns a Poly quantifying one variable
\* over Fun{Var, Var}.
C2_IdentityIsPoly ==
    \A v \in Binders :
        (Finished /\ expr = IdLambda(v)) =>
            result.tag = "Ok" /\ PolyIdentity(result.ty)

\* C2 (amended): synth of \x. x succeeds and returns a1 -> a1 for a single
\* existential a1 left unsolved in the final context; it is not generalised.
C2_IdentityIsMonoExistential ==
    \A v \in Binders :
        (Finished /\ expr = IdLambda(v)) =>
            result.tag = "Ok" /\ MonoIdentity(result.ctx, result.ty)

C2_Witness == pc = "done" /\ expr = IdLambda(x) /\ result.tag = "Ok"

\* C3 (as claimed): synth of the annotated identity applied to the annotated
\* identity succeeds with a Poly type alpha-equivalent to forall b. b -> b.
C3_IdIdIsPoly ==
    (Finished /\ expr = IdId) => result.tag = "Ok" /\ PolyIdentity(result.ty)

\* C3 (amended): it succeeds and returns a1 -> a1 for a single unsolved
\* existential a1: the argument's forall is instantiated, not kept.
C3_IdIdIsMonoExistential ==
    (Finished /\ expr = IdId) =>
        result.tag = "Ok" /\ MonoIdentity(result.ctx, result.ty)

C3_Witness == pc = "done" /\ expr = IdId /\ result.tag = "Ok"

\* no entry of ctx solves an existential to a type that mentions it
NoSelfSolution(ctx) ==
    \A i \in 1..Len(ctx) :
        ctx[i].k = "ExVarSolved" => ~(ctx[i].n \in free_vars(ctx[i].ty))

\* C4: synth of \x. x x fails with Subtype or ExistentialEscaped, and no
\* context that a call of the run takes or returns solves an existential
\* to a type whose free variables contain it.
C4_SelfApplicationRejected ==
    /\ (Finished /\ expr = SelfApp) =>
          result.tag = "Err" /\ result.err.k \in {"Subtype", "ExistentialEscaped"}
    /\ \A i \in 1..Len(Calls) :
          NoSelfSolution(Calls[i].ctx) /\ NoSelfSolution(Calls[i].out)

\* the occurs check fired: a1 -> a2 <: a1 was refused
C4_Witness ==
    /\ pc = "done" /\ expr = SelfApp /\ result.tag = "Err"
    /\ result.err.k = "Subtype"
    /\ result.err.b.k = "Existential"
    /\ result.err.b.n \in free_vars(result.err.a)

TypeOfLiteral(l) == IF l.lit.k = "Int" THEN Type_Int ELSE Type_Bool

\* C5: the annotated and the unannotated identity applied to a literal
\* synthesise exactly the literal's type, for every literal.
C5_IdentityAppliedToLiteral ==
    \A l \in Literals :
        (Finished /\ expr \in {Expr_App(IdAnn(x, a), l), Expr_App(IdLambda(x), l)}) =>
            result.tag = "Ok" /\ result.ty = TypeOfLiteral(l)

C5_Witness ==
    /\ pc = "done" /\ result.tag = "Ok"
    /\ \/ expr = Expr_App(IdAnn(x, a), Expr_Literal(Literal_Int(1)))
             /\ result.ty = Type_Int
       \/ expr = Expr_App(IdLambda(x), Expr_Literal(Literal_Bool(TRUE)))
             /\ result.ty = Type_Bool

\* the data model's well-formedness: every element obeys its rule with
\* respect to the prefix before it
WellFormed(ctx) == \A i \in 1..Len(ctx) : wf_mut(SubSeq(ctx, 1, i))

\* every solution is a monotype well-formed in the strict prefix before it
EscapeSafe(ctx) ==
    \A i \in 1..Len(ctx) :
        ctx[i].k = "ExVarSolved" =>
            is_mono(ctx[i].ty) /\ wf_type(SubSeq(ctx, 1, i - 1), ctx[i].ty)

\* C8: every context returned by subtype, instantiate_l, instantiate_r,
\* check, infer or infer_application is escape-safe: each solution is a
\* monotype well-formed in the strict prefix before its entry.
C8_EscapeSafety ==
    \A i \in 1..Len(Calls) :
        Calls[i].tag = "Ok" => EscapeSafe(Calls[i].out)

\* a call returned a context with a solution that mentions a variable
C8_Witness ==
    /\ pc = "done"
    /\ \E i \in 1..Len(Calls) :
          /\ Calls[i].tag = "Ok"
          /\ Calls[i].fn \in {"instantiate_l", "instantiate_r"}
          /\ \E j \in 1..Len(Calls[i].out) :
                /\ Calls[i].out[j].k = "ExVarSolved"
                /\ free_vars(Calls[i].out[j].ty) # {}

IsRigid(e) == e.k \in {"Universal", "Marker", "Anno"}

\* out is in with unsolved existentials possibly solved and with fresh
\* existentials possibly inserted; nothing else differs
InputPreserved(in, out) ==
    LET old == SelectSeq(out, LAMBDA e : IsRigid(e) \/ e.n \in existentials(in))
    IN /\ Len(old) = Len(in)
       /\ \A i \in 1..Len(in) :
             \/ old[i] = in[i]
             \/ /\ in[i].k = "ExVar"
                /\ old[i].k = "ExVarSolved"
                /\ old[i].n = in[i].n
       /\ \A i \in 1..Len(out) :
             ~IsRigid(out[i]) =>
                Cardinality({j \in 1..Len(out) :
                                ~IsRigid(out[j]) /\ out[j].n = out[i].n}) = 1

\* C9: a successful subtype, instantiate_l or instantiate_r on a well-formed
\* context returns the input's Universal, Marker and Anno entries in the same
\* order, keeps every existential declared, keeps every solution, and changes
\* nothing but unsolved existentials to solved ones, with fresh existentials
\* inserted by articulation.
C9_Monotonicity ==
    \A i \in 1..Len(Calls) :
        (/\ Calls[i].fn \in {"subtype", "instantiate_l", "instantiate_r"}
         /\ Calls[i].tag = "Ok"
         /\ WellFormed(Calls[i].ctx)) =>
            InputPreserved(Calls[i].ctx, Calls[i].out)

\* a subtype call solved an existential of its input and articulated another
C9_Witness ==
    /\ pc = "done"
    /\ \E i \in 1..Len(Calls) :
          /\ Calls[i].fn = "subtype" /\ Calls[i].tag = "Ok"
          /\ WellFormed(Calls[i].ctx)
          /\ Len(Calls[i].out) > Len(Calls[i].ctx)
          /\ \E j \in 1..Len(Calls[i].ctx) :
                /\ Calls[i].ctx[j].k = "ExVar"
                /\ solved_evar_wf(Calls[i].out, Calls[i].ctx[j].n)
                /\ j < Len(Calls[i].ctx)

\* the names of the existentials that occur in ty
RECURSIVE ExNames(_)
ExNames(ty) ==
    IF ty.k = "Existential" THEN {ty.n}
    ELSE IF ty.k = "Fun" THEN ExNames(ty.arg) \cup ExNames(ty.result)
    ELSE IF ty.k = "Poly" THEN ExNames(ty.ty)
    ELSE {}

\* types over the existentials that ctx declares
TypesOver(ctx) ==
    LET E == {Type_Existential(n) : n \in existentials(ctx)} IN
    E \cup {Type_Int}
      \cup {Type_Fun(p, Type_Poly(<<a>>, Type_Fun(Type_Var(a), p))) : p \in E}

ApplyClosed(ctx, ty) ==
    LET once == apply(ctx, ty) IN
    /\ apply(ctx, once) = once
    /\ \A n \in ExNames(once) : ~solved_evar_wf(ctx, n)

\* C10: in every context that a call of synth takes or returns, apply is
\* idempotent and leaves no existential that the context solves.
C10_ApplyIdempotent ==
    \A i \in 1..Len(Calls) :
        /\ \A ty \in TypesOver(Calls[i].ctx) : ApplyClosed(Calls[i].ctx, ty)
        /\ Calls[i].tag = "Ok" =>
              \A ty \in TypesOver(Calls[i].out) : ApplyClosed(Calls[i].out, ty)

\* apply followed a chain of two solutions
C10_Witness ==
    /\ pc = "done"
    /\ \E i \in 1..Len(Calls) :
          /\ Calls[i].tag = "Ok"
          /\ \E j \in 1..Len(Calls[i].out) :
                /\ Calls[i].out[j].k = "ExVarSolved"
                /\ \E n \in ExNames(Calls[i].out[j].ty) :
                      solved_evar_wf(Calls[i].out, n)

\* the written (existential-free) types
ExistentialFree(ty) == ExNames(ty) = {}

\* subtype ran on a Poly against an existential-free monotype well-formed in
\* the context, and succeeded
LeftForallSucceeded ==
    /\ pc = "done"
    /\ args.op = "subtype"
    /\ args.ty1.k = "Poly"
    /\ is_mono(args.ty2) /\ ExistentialFree(args.ty2)
    /\ wf_type(args.ctx, args.ty2)
    /\ result.tag = "Ok"

\* neither the Markers nor the existentials that the left-forall rule pushed
\* for the bound variables of ty1 are left in ctx
PushedEntriesGone(ctx) ==
    \A i \in 1..Len(args.ty1.vars) : \A j \in 1..Len(ctx) :
        ctx[j].n # GenName(NameGen_new + i)

SmokeTest ==
    /\ args.op = "subtype"
    /\ args.ctx = <<>>
    /\ args.ty1 = Type_Poly(<<a>>, Type_Var(a))
    /\ args.ty2 = Type_Int

\* C6 (as claimed): a successful left-forall subtype against an
\* existential-free monotype returns exactly its input context.
C6_LeftForallReturnsInput ==
    LeftForallSucceeded => result.ctx = args.ctx

\* C6 (amended): (forall a. a) <: Int in the empty context returns the empty
\* context; a successful left-forall subtype leaves neither the Marker nor
\* the existentials it pushed, and returns its input context when the Poly
\* is existential-free too (an existential of the input that occurs in the
\* Poly may come back solved).
C6_LeftForallCleansUp ==
    /\ (Finished /\ SmokeTest) => result.tag = "Ok" /\ result.ctx = <<>>
    /\ LeftForallSucceeded =>
          /\ PushedEntriesGone(result.ctx)
          /\ ExistentialFree(args.ty1) => result.ctx = args.ctx

C6_Witness ==
    /\ LeftForallSucceeded
    /\ args.ctx = <<Universal(x), ExVar(alpha)>>
    /\ args.ty1 = ForallId(a)
    /\ args.ty2 = Type_Fun(Type_Int, Type_Int)
    /\ result.ctx = args.ctx

\* solve ran on a context that holds ExVar(ex)
SolveRan ==
    /\ Finished
    /\ args.op = "solve"
    /\ elem(args.ctx, ExVar(args.ex))

\* C7: on a context that holds ExVar(ex), solve returns the context with
\* that entry replaced in place by ExVarSolved(ex, ty) and nothing else
\* changed when ty is well-formed in the strict prefix before the entry,
\* and None when it is not.
C7_SolveInPlace ==
    SolveRan =>
        LET pos == split_at(args.ctx, ExVar(args.ex)) IN
        IF wf_type(SubSeq(args.ctx, 1, pos - 1), args.ty)
        THEN /\ result.tag = "Some"
             /\ Len(result.ctx) = Len(args.ctx)
             /\ result.ctx[pos] = ExVarSolved(args.ex, args.ty)
             /\ \A i \in 1..Len(args.ctx) : i # pos => result.ctx[i] = args.ctx[i]
        ELSE result = None

\* the test solve_ex, and a refusal: the type is declared only after alpha
C7_Witness ==
    /\ SolveRan
    /\ \/ /\ args.ctx = <<Universal(x), ExVar(alpha), Anno(var, Type_Int)>>
          /\ args.ex = alpha /\ args.ty = Type_Var(x)
          /\ result = Some(<<Universal(x), ExVarSolved(alpha, Type_Var(x)),
                             Anno(var, Type_Int)>>)
       \/ /\ args.ctx = <<ExVar(alpha), Universal(x)>>
          /\ args.ex = alpha /\ args.ty = Type_Var(x)
          /\ result = None

\* C11: wf() returns true iff every element of the context, not only the
\* last one, obeys its rule with respect to the prefix before it.
C11_WfWholeContext ==
    (pc = "done" /\ args.op = "wf") => (result.val = WellFormed(args.ctx))

\* the position of the entry, solved or not, that declares the existential ex
ExPos(ctx, ex) ==
    CHOOSE i \in 1..Len(ctx) : ctx[i].k \in {"ExVar", "ExVarSolved"} /\ ctx[i].n = ex

\* C17: for two existentials declared in a well-formed context, solved or
\* not, existentials_ordered returns a boolean, and it is true iff the entry
\* of the first comes strictly before the entry of the second.
C17_OrderRegardlessOfSolved ==
    (/\ Finished
     /\ args.op = "existentials_ordered"
     /\ WellFormed(args.ctx)
     /\ {args.ex1, args.ex2} \subseteq existentials(args.ctx)) =>
        /\ result.tag = "Ok"
        /\ result.val = (ExPos(args.ctx, args.ex1) < ExPos(args.ctx, args.ex2))

\* C12: substitute is capture-avoiding: the free variables of the result are
\* those of e without the scrutinee, together with those of the replacement
\* when the scrutinee is free in e.
C12_CaptureAvoiding ==
    (pc = "done" /\ args.op = "substitute") =>
        Expr_free_vars(result.expr) =
            (Expr_free_vars(args.e) \ {args.scrutinee})
                \cup (IF args.scrutinee \in Expr_free_vars(args.e)
                      THEN Expr_free_vars(args.replacement) ELSE {})

\* (\y. x y)[x := y] with the counter at 1: the binder is renamed to 2y
C12_Witness ==
    /\ pc = "done" /\ args.op = "substitute"
    /\ args.supply = 1
    /\ args.e = Expr_Lambda(y, Expr_App(Expr_Var(x), Expr_Var(y)))
    /\ args.scrutinee = x /\ args.replacement = Expr_Var(y)
    /\ result.supply = 2
    /\ result.expr = Expr_Lambda(<<"2", "y">>,
                                 Expr_App(Expr_Var(y), Expr_Var(<<"2", "y">>)))

\* the existential names of ty in the order of their first occurrence
RECURSIVE ExOrder(_, _)
ExOrder(ty, acc) ==
    IF ty.k = "Existential"
    THEN (IF ty.n \in Range(acc) THEN acc ELSE Append(acc, ty.n))
    ELSE IF ty.k = "Fun" THEN ExOrder(ty.result, ExOrder(ty.arg, acc))
    ELSE IF ty.k = "Poly" THEN ExOrder(ty.ty, acc)
    ELSE acc

\* ty with every existential named by its position in order
RECURSIVE Canonical(_, _)
Canonical(ty, order) ==
    IF ty.k = "Existential"
    THEN Type_Existential(CHOOSE i \in 1..Len(order) : order[i] = ty.n)
    ELSE IF ty.k = "Fun"
    THEN Type_Fun(Canonical(ty.arg, order), Canonical(ty.result, order))
    ELSE IF ty.k = "Poly" THEN Type_Poly(ty.vars, Canonical(ty.ty, order))
    ELSE ty

\* t1 and t2 are equal up to a consistent (one-to-one) renaming of their
\* existential names
SameUpToExistentials(t1, t2) ==
    Canonical(t1, ExOrder(t1, <<>>)) = Canonical(t2, ExOrder(t2, <<>>))

\* two runs ended alike: both Ok with types equal up to existential names,
\* both Err with the same kind of TypeError, or both with the same panic
SameOutcome(r1, r2) ==
    /\ r1.tag = r2.tag
    /\ r1.tag = "Ok" => SameUpToExistentials(r1.ty, r2.ty)
    /\ r1.tag = "Err" => r1.err.k = r2.err.k
    /\ r1.tag = "Panic" => r1.msg = r2.msg

\* C13: synth on a TypeChecker whose counter stands at any value ends as
\* synth on a fresh TypeChecker does for the same expression: both succeed
\* with types equal up to a renaming of existential names, or both fail the
\* same way.
C13_Determinism ==
    (Finished /\ args.op = "synth") =>
        /\ SameOutcome(result, synth(TypeChecker_new, expr))
        /\ SameOutcome(result, synth([gen |-> FarGenStart, log |-> <<>>], expr))

\* a run on a used TypeChecker returned a type with existentials whose names
\* are not those of the fresh run
C13_Witness ==
    /\ pc = "done" /\ args.op = "synth"
    /\ args.gen # NameGen_new
    /\ result.tag = "Ok"
    /\ ExNames(result.ty) # {}
    /\ result.ty # synth(TypeChecker_new, expr).ty

\* C14: the free variables (Var and Existential names not bound by a Poly)
\* of A.subst(v, B) are among those of A without v and those of B, and
\* subst_mut leaves the type that subst returns.
C14_SubstFreeVars ==
    (pc = "done" /\ args.op = "subst") =>
        /\ free_vars(result.ty) \subseteq
              (free_vars(args.ty) \ {args.var}) \cup free_vars(args.replacement)
        /\ result.ty_mut = result.ty

\* (forall b. b -> a)[a := b -> a]: a is replaced under the binder of b
C14_Witness ==
    /\ pc = "done" /\ args.op = "subst"
    /\ args.ty = Type_Poly(<<b>>, Type_Fun(Type_Var(b), Type_Var(a)))
    /\ args.var = a
    /\ args.replacement = Type_Poly(<<b>>, Type_Fun(Type_Var(b), Type_Var(a)))
    /\ result.ty = Type_Poly(<<b>>, Type_Fun(Type_Var(b), args.replacement))
    /\ result.ty_mut = result.ty

\* C15: synth terminates on every expression: the call made on an
\* expression has returned, and what it returned is Ok or Err.
C15_SynthReturns ==
    (args.op = "synth") => (pc = "done" /\ result.tag \in {"Ok", "Err"})

\* C16: instantiate_l against a Poly, with ExVar(ex) in the context, returns
\* a context or a TypeError rather than aborting, and a context it returns
\* declares the Universals of the input and no others.
C16_InstLPolyReturns ==
    (Finished /\ args.op = "instantiate_l" /\ args.ty.k = "Poly") =>
        /\ result.tag \in {"Ok", "Err"}
        /\ result.tag = "Ok" => foralls(result.ctx) = foralls(args.ctx)

\* instantiate_l or instantiate_r ran on two distinct existentials, both
\* unsolved in the context
ReachRan ==
    /\ Finished
    /\ args.op \in {"instantiate_l", "instantiate_r"}
    /\ args.ty.k = "Existential"
    /\ args.ty.n # args.ex
    /\ elem(args.ctx, ExVar(args.ex))
    /\ elem(args.ctx, ExVar(args.ty.n))

\* C19: on two distinct existentials, both unsolved, instantiate_l and
\* instantiate_r succeed, and the context returned is the input with the one
\* declared later solved to Existential of the one declared earlier, every
\* other entry unchanged.
C19_ReachSolvesLater ==
    ReachRan =>
        LET p1 == split_at(args.ctx, ExVar(args.ex))
            p2 == split_at(args.ctx, ExVar(args.ty.n))
            later == IF p1 < p2 THEN p2 ELSE p1
            earlier == IF p1 < p2 THEN p1 ELSE p2
        IN /\ result.tag = "Ok"
           /\ result.ctx =
                [args.ctx EXCEPT ![later] =
                    ExVarSolved(args.ctx[later].n,
                                Type_Existential(args.ctx[earlier].n))]

\* both orders, through instantiate_l: InstLReach solves the type's
\* existential, InstLSolve solves ex
C19_Witness ==
    /\ ReachRan
    /\ args.op = "instantiate_l"
    /\ args.ex = alpha /\ args.ty = Type_Existential(beta)
    /\ \/ /\ args.ctx = <<ExVar(alpha), Marker(m), ExVar(beta)>>
          /\ result.ctx = <<ExVar(alpha), Marker(m),
                            ExVarSolved(beta, Type_Existential(alpha))>>
       \/ /\ args.ctx = <<ExVar(beta), Marker(m), ExVar(alpha)>>
          /\ result.ctx = <<ExVar(beta), Marker(m),
                            ExVarSolved(alpha, Type_Existential(beta))>>

\* C18: every context that a call of check, infer, infer_application,
\* subtype, instantiate_l or instantiate_r takes or returns during synth is
\* well-formed as the data model has it: no name declared twice, every Anno
\* type and every solution well-formed in the prefix before its entry.
C18_ContextsWellFormed ==
    \A i \in 1..Len(Calls) :
        /\ WellFormed(Calls[i].ctx)
        /\ Calls[i].tag = "Ok" => WellFormed(Calls[i].out)

\* the type of the innermost (last) Anno of v in ctx
InnermostAnno(ctx, v) ==
    LET hits == {i \in 1..Len(ctx) : ctx[i].k = "Anno" /\ ctx[i].n = v} IN
    ctx[CHOOSE i \in hits : \A j \in hits : j <= i].ty

\* C20: a variable is typed at the Anno of its innermost binder, and a
\* check of a lambda against a function type returns its input context up
\* to solving: the Universal, Marker and Anno entries it was given, in
\* order, with the Anno it pushed removed.
C20_LexicalScoping ==
    \A i \in 1..Len(Calls) :
        /\ (Calls[i].fn = "infer" /\ Calls[i].a.k = "Var" /\ Calls[i].tag = "Ok") =>
              Calls[i].ty = InnermostAnno(Calls[i].ctx, Calls[i].a.n)
        /\ (/\ Calls[i].fn = "check" /\ Calls[i].tag = "Ok"
            /\ Calls[i].a.k = "Lambda" /\ Calls[i].b.k = "Fun") =>
              SelectSeq(Calls[i].out, IsRigid) = SelectSeq(Calls[i].ctx, IsRigid)

\* every name of a type, bound or free
RECURSIVE TypeNames(_)
TypeNames(ty) ==
    IF ty.k \in {"Var", "Existential"} THEN {ty.n}
    ELSE IF ty.k = "Fun" THEN TypeNames(ty.arg) \cup TypeNames(ty.result)
    ELSE IF ty.k = "Poly" THEN {ty.vars[i] : i \in 1..Len(ty.vars)} \cup TypeNames(ty.ty)
    ELSE {}

\* the names that the elements of a context declare
ElemNames(ctx) == {ctx[i].n : i \in 1..Len(ctx)}

\* the names that the TypeChecker issued during the call
IssuedNames == {GenName(k) : k \in (args.gen + 1)..name_gen}

\* subtype has run on an existential-free type A against itself, A
\* well-formed in the well-formed context
ReflRan ==
    /\ Finished
    /\ args.op = "subtype"
    /\ args.ty1 = args.ty2
    /\ ExistentialFree(args.ty1)
    /\ WellFormed(args.ctx)
    /\ wf_type(args.ctx, args.ty1)

ReturnsInput == pc = "done" /\ result.tag = "Ok" /\ result.ctx = args.ctx

====
